---- MODULE Spec2Model ----
(***************************************************************************)
(* Model of shared/ux.py: the interaction stack (UserInteraction), the    *)
(* key waits on the numpad queue, the abort entry points, the story        *)
(* viewer's line buffer and scroll state machine, and the idle watchdog.   *)
(*                                                                         *)
(* Three subsystems, one specification each (the variables of the other    *)
(* two stay at their initial values):                                      *)
(*   Spec       the_ux, the driver loop, the numpad queue, the aborts      *)
(*   StorySpec  ux_show_story                                              *)
(*   IdleSpec   idle_logout (IdleFairSpec adds the scheduler's fairness)   *)
(*                                                                         *)
(* The build modelled is the one of lines 21-26 (version.has_qwerty        *)
(* false): CH_PER_W = 17, STORY_H = 5.                                     *)
(***************************************************************************)
EXTENDS Integers, Sequences, FiniteSets

\* ------------------------------------------------------------------ bounds
\* Depth up to which callers push screens.
MaxDepth == 3
\* Events (key events and abort sentinels) the numpad may hold queued.
MaxQueue == 1

\* The screen objects callers create: two identities tell every order and every
\* repetition on the stack apart.
Screens == {"A", "B"}
\* Python's None, where a screen is expected.
NoScreen == "None"

VARIABLES
    \* --- the_ux and the driver loop
    stack,      \* the_ux.stack: sequence of screens, last = top
    lastOp,     \* history: the last stack operation, its argument, its return value, and
                \* (but for reset, which discards it) the stack before
    undo,       \* history: the stack contents before each push not yet popped
    queue,      \* numpad's queue of key events
    dpc,        \* driver task: "boot", "loop", "active", "wait", "pause", "unwind",
                \* "absorbed", "crashed"
    running,    \* the screen whose interact() the driver loop is inside of
    armed,      \* ux_wait_keyup's local
    expected,   \* ux_wait_keyup's argument
    apc,        \* position inside abort_and_goto / abort_and_push (0: no call in progress)
    acall,      \* the call in progress: function, argument, stack and queue at entry
    preempt,    \* history: target of the latest abort since an abort_and_goto hit a blocked wait
    pleft,      \* ux_dramatic_pause: sleeps of the for loop not yet finished
    pabort,     \* history: target of the latest abort called during the sleeps of a pause
    \* --- ux_show_story
    s_in,       \* the call's arguments: title, msg (its lines), stream, escape, strict_escape
    lines,      \* the line buffer
    top,        \* index of the first line shown
    spc,        \* "off", "call", "wait" (drawn, in pr.wait()), "done", "fault"
    sres,       \* the value returned
    pdRun,      \* history: Page-down presses so far, while no other key was pressed (else -1)
    skey,       \* history: the key pr.wait() returned last ("None" before the first)
    \* --- idle_logout
    hsm_active,         \* glob.hsm_active
    last_event_time,    \* glob.numpad.last_event_time (0: none recorded)
    now,                \* utime.ticks_ms(), in units of one watchdog sleep
    idle_to,            \* settings 'idle_to', in the same units
    wpc,                \* "off", "start", "sleep", "logout_now", "done"
    logouts,            \* history: calls of logout_now()
    quiet,              \* environment: no key event, mode or settings change from now on
    \* --- ux_clear_keys, ux_poll_key called on a queue of pending events
    kq,         \* the numpad's queue
    klast       \* history: the last call, the queue it found, what it returned or raised

uxvars ==
    <<stack, lastOp, undo, queue, dpc, running, armed, expected, apc, acall, preempt,
      pleft, pabort>>

storyvars == <<s_in, lines, top, spc, sres, pdRun, skey>>

idlevars == <<hsm_active, last_event_time, now, idle_to, wpc, logouts, quiet>>

keysvars == <<kq, klast>>

vars == <<uxvars, storyvars, idlevars, keysvars>>

\* ------------------------------------------------- UserInteraction (the_ux)

top_of_stack(st) == IF st # <<>> THEN st[Len(st)] ELSE NoScreen

push_mutant_front(st, new_ux) == <<new_ux>> \o st

push(st, new_ux) == Append(st, new_ux)

reset_mutant_noclear(st, new_ux) == push(st, new_ux)

\* stack.clear(); gc.collect(); self.push(new_ux)
reset(st, new_ux) == push(<<>>, new_ux)

replace_mutant_nopop(st, new_ux) ==
    IF st = <<>> THEN [stack |-> st, raised |-> "IndexError"]
    ELSE [stack |-> Append(st, new_ux), raised |-> "None"]

\* list.pop() on an empty list raises IndexError before anything is appended.
replace(st, new_ux) ==
    IF st = <<>> THEN [stack |-> st, raised |-> "IndexError"]
    ELSE [stack |-> Append(SubSeq(st, 1, Len(st) - 1), new_ux), raised |-> "None"]

pop_mutant_guard(st) ==
    IF Len(st) < 1 THEN [stack |-> st, ret |-> "True"]
    ELSE [stack |-> SubSeq(st, 1, Len(st) - 1), ret |-> "None"]

pop(st) ==
    IF Len(st) < 2 THEN [stack |-> st, ret |-> "True"]
    ELSE [stack |-> SubSeq(st, 1, Len(st) - 1), ret |-> "None"]

\* async def interact: try: await self.stack[-1].interact() / except AbortInteraction: pass.
\* What the except clause does with an exception leaving the top screen's interact().
interact_mutant_propagate(exc) == "propagate"

interact_except(exc) == IF exc = "AbortInteraction" THEN "pass" ELSE "propagate"

\* ------------------------------------------------------------ numpad, keys

\* numpad.ABORT_KEY: the reserved code that abort_ux() injects.
ABORT_KEY == "ABORT"

\* Key codes the numpad delivers: "" is a release, "xy" two keys held at once.
KeyEvents == {"", "x", "y", "xy"}

\* len(ch)
KeyLen(ch) == IF ch = "" THEN 0 ELSE IF ch \in {"x", "y"} THEN 1 ELSE 2

\* The `expected` arguments callers pass: none, the string 'y' (the empty code is
\* `in` every Python string), the list ['y'] (the empty code is not in it).
Expecteds == {{}, {"", "y"}, {"y"}}

Aborts(q) == SelectSeq(q, LAMBDA e : e = ABORT_KEY)

\* numpad.abort_ux(): inject the abort sentinel into the queue.
abort_ux(q) == Append(q, ABORT_KEY)

ux_wait_keyup_step_mutant_noabort(ch, arm, exp) ==
    IF ch = ABORT_KEY \/ KeyLen(ch) > 1 THEN [kind |-> "continue", armed |-> arm, value |-> "None"]
    ELSE IF exp # {} /\ ch \notin exp THEN [kind |-> "continue", armed |-> arm, value |-> "None"]
    ELSE IF ch = "" /\ arm \notin {"None", ""} THEN [kind |-> "return", armed |-> arm, value |-> arm]
    ELSE [kind |-> "continue", armed |-> ch, value |-> "None"]

\* One iteration of ux_wait_keyup's loop on the event ch just read.
ux_wait_keyup_step(ch, arm, exp) ==
    IF ch = ABORT_KEY THEN [kind |-> "raise", armed |-> arm, value |-> "None"]
    ELSE IF KeyLen(ch) > 1 THEN [kind |-> "continue", armed |-> arm, value |-> "None"]
    ELSE IF exp # {} /\ ch \notin exp THEN [kind |-> "continue", armed |-> arm, value |-> "None"]
    ELSE IF ch = "" /\ arm \notin {"None", ""} THEN [kind |-> "return", armed |-> arm, value |-> arm]
    ELSE [kind |-> "continue", armed |-> ch, value |-> "None"]

\* ux_clear_keys(no_aborts) on the queue q: numpad.get_nowait() until QueueEmpty,
\* raising at an abort sentinel unless no_aborts. The queue left, and the
\* exception raised.
RECURSIVE ux_clear_keys_mutant_swallow(_, _)
ux_clear_keys_mutant_swallow(q, no_aborts) ==
    IF q = <<>> THEN [queue |-> q, raised |-> "None"]
    ELSE ux_clear_keys_mutant_swallow(Tail(q), no_aborts)

RECURSIVE ux_clear_keys(_, _)
ux_clear_keys(q, no_aborts) ==
    IF q = <<>> THEN [queue |-> q, raised |-> "None"]
    ELSE IF ~no_aborts /\ Head(q) = ABORT_KEY THEN [queue |-> Tail(q), raised |-> "AbortInteraction"]
    ELSE ux_clear_keys(Tail(q), no_aborts)

\* ux_poll_key() on the queue q: one get_nowait().
ux_poll_key(q) ==
    IF q = <<>> THEN [queue |-> q, ret |-> "None", raised |-> "None"]
    ELSE IF Head(q) = ABORT_KEY THEN [queue |-> Tail(q), ret |-> "None", raised |-> "AbortInteraction"]
    ELSE [queue |-> Tail(q), ret |-> Head(q), raised |-> "None"]

\* ------------------------------------------------------ abort entry points

\* The statements of each function, in program order.
abort_and_goto_mutant_order == <<"abort_ux", "reset">>

abort_and_goto_body == <<"reset", "abort_ux">>

abort_and_push_mutant_order == <<"abort_ux", "push">>

abort_and_push_body == <<"push", "abort_ux">>

AbortBody(fn) == IF fn = "goto" THEN abort_and_goto_body ELSE abort_and_push_body

NoCall == [fn |-> "none", m |-> NoScreen, pre |-> <<>>, preq |-> <<>>]

NoOp == [op |-> "none", arg |-> NoScreen, pre |-> <<>>, ret |-> "None", undone |-> <<>>]

UxInit ==
    /\ stack = <<>>
    /\ lastOp = NoOp
    /\ undo = <<>>
    /\ queue = <<>>
    /\ dpc = "boot"
    /\ running = NoScreen
    /\ armed = "None"
    /\ expected = {}
    /\ apc = 0
    /\ acall = NoCall
    /\ preempt = NoScreen
    /\ pleft = 0
    /\ pabort = NoScreen

\* ----------------------------------------------------------------- actions

\* The result of the_ux.<op>(x) on the current stack.
StackResult(op, x) ==
    CASE op = "push" -> [stack |-> push(stack, x), ret |-> "None", raised |-> "None"]
      [] op = "reset" -> [stack |-> reset(stack, x), ret |-> "None", raised |-> "None"]
      [] op = "replace" -> [stack |-> replace(stack, x).stack, ret |-> "None",
                            raised |-> replace(stack, x).raised]
      [] op = "pop" -> [stack |-> pop(stack).stack, ret |-> pop(stack).ret, raised |-> "None"]

\* the_ux.<op>(x) with the history it leaves: a push on an initialized stack
\* records the stack it found, the pop that removes what was pushed takes that
\* record back (lastOp.undone), any other operation forgets the records.
Apply(op, x) ==
    LET res == StackResult(op, x)
        popped == op = "pop" /\ res.ret = "None" /\ undo # <<>>
    IN
    /\ stack' = res.stack
    /\ lastOp' = [op |-> op, arg |-> x, pre |-> IF op = "reset" THEN <<>> ELSE stack,
                  ret |-> res.ret, undone |-> IF popped THEN undo[Len(undo)] ELSE <<>>]
    /\ undo' = CASE op = "push" -> IF stack # <<>> THEN Append(undo, stack) ELSE <<>>
                 [] op = "pop" -> IF popped THEN SubSeq(undo, 1, Len(undo) - 1) ELSE undo
                 [] OTHER -> <<>>

\* Start-up: the first screen is installed with reset() before the driver loop runs.
Boot ==
    /\ dpc = "boot" /\ apc = 0
    /\ \E x \in Screens : Apply("reset", x)
    /\ dpc' = "loop"
    /\ UNCHANGED <<queue, running, armed, expected, apc, acall, preempt, pleft, pabort>>
    /\ UNCHANGED <<storyvars, idlevars, keysvars>>

\* The driver loop calls the_ux.interact(): it runs stack[-1].interact().
StartCycle ==
    /\ dpc = "loop" /\ apc = 0
    /\ IF stack = <<>>
       THEN dpc' = "crashed" /\ running' = NoScreen
       ELSE dpc' = "active" /\ running' = stack[Len(stack)]
    /\ UNCHANGED <<stack, lastOp, undo, queue, armed, expected, apc, acall, preempt, pleft, pabort>>
    /\ UNCHANGED <<storyvars, idlevars, keysvars>>

\* The running screen's code calls a stack operation.
ScreenOp ==
    /\ dpc = "active" /\ apc = 0
    /\ \E op \in {"push", "replace", "pop", "reset"} :
        \E x \in IF op = "pop" THEN {NoScreen} ELSE Screens :
            /\ op = "push" => Len(stack) < MaxDepth
            /\ Apply(op, x)
            /\ dpc' = IF StackResult(op, x).raised = "None" THEN "active" ELSE "crashed"
    /\ preempt' = NoScreen
    /\ pabort' = NoScreen
    /\ UNCHANGED pleft
    /\ UNCHANGED <<queue, running, armed, expected, apc, acall>>
    /\ UNCHANGED <<storyvars, idlevars, keysvars>>

\* The running screen calls ux_wait_keyup(expected).
ScreenWait ==
    /\ dpc = "active" /\ apc = 0
    /\ \E exp \in Expecteds : expected' = exp
    /\ armed' = "None"
    /\ dpc' = "wait"
    /\ preempt' = NoScreen
    /\ pabort' = NoScreen
    /\ UNCHANGED pleft
    /\ UNCHANGED <<stack, lastOp, undo, queue, running, apc, acall>>
    /\ UNCHANGED <<storyvars, idlevars, keysvars>>

\* ch = await numpad.get(), and the rest of that iteration of ux_wait_keyup.
KeyGet ==
    /\ dpc = "wait" /\ apc = 0 /\ queue # <<>>
    /\ LET r == ux_wait_keyup_step(Head(queue), armed, expected) IN
        /\ dpc' = CASE r.kind = "raise" -> "unwind"
                    [] r.kind = "return" -> "active"
                    [] OTHER -> "wait"
        /\ armed' = IF r.kind = "continue" THEN r.armed ELSE "None"
        /\ expected' = IF r.kind = "continue" THEN expected ELSE {}
    /\ queue' = Tail(queue)
    /\ UNCHANGED <<stack, lastOp, undo, running, apc, acall, preempt, pleft, pabort>>
    /\ UNCHANGED <<storyvars, idlevars, keysvars>>

\* AbortInteraction leaves the top screen's interact() and reaches the except
\* clause of the_ux.interact().
Absorb ==
    /\ dpc = "unwind" /\ apc = 0
    /\ dpc' = IF interact_except("AbortInteraction") = "pass" THEN "absorbed" ELSE "crashed"
    /\ UNCHANGED <<stack, lastOp, undo, queue, running, armed, expected, apc, acall, preempt, pleft, pabort>>
    /\ UNCHANGED <<storyvars, idlevars, keysvars>>

\* the_ux.interact() returns to the driver loop after the except clause.
InteractReturn ==
    /\ dpc = "absorbed" /\ apc = 0
    /\ dpc' = "loop"
    /\ running' = NoScreen
    /\ UNCHANGED <<stack, lastOp, undo, queue, armed, expected, apc, acall, preempt, pleft, pabort>>
    /\ UNCHANGED <<storyvars, idlevars, keysvars>>

\* The running screen's interact() returns normally, and the_ux.interact() with it.
ScreenReturn ==
    /\ dpc = "active" /\ apc = 0
    /\ dpc' = "loop"
    /\ running' = NoScreen
    /\ preempt' = NoScreen
    /\ pabort' = NoScreen
    /\ UNCHANGED pleft
    /\ UNCHANGED <<stack, lastOp, undo, queue, armed, expected, apc, acall>>
    /\ UNCHANGED <<storyvars, idlevars, keysvars>>

\* n = seconds * 8, the sleeps of a pause: none, one, two.
PauseSleeps == {0, 1, 2}

\* What the end of ux_dramatic_pause (line 253, ux_clear_keys()) does to the
\* driver task.
PauseClear ==
    LET r == ux_clear_keys(queue, FALSE) IN
    /\ queue' = r.queue
    /\ dpc' = IF r.raised = "None" THEN "active" ELSE "unwind"
    /\ pleft' = 0

\* The running screen calls ux_dramatic_pause(msg, seconds): it returns at once
\* in the privileged mode, else shows the message and starts the first sleep, or
\* with no sleep to do goes on to ux_clear_keys().
ScreenPause ==
    /\ dpc = "active" /\ apc = 0
    /\ IF hsm_active THEN UNCHANGED <<queue, dpc, pleft>>
       ELSE \E n \in PauseSleeps :
            IF n = 0 THEN PauseClear
            ELSE dpc' = "pause" /\ pleft' = n /\ UNCHANGED queue
    /\ preempt' = NoScreen
    /\ pabort' = NoScreen
    /\ UNCHANGED <<stack, lastOp, undo, running, armed, expected, apc, acall>>
    /\ UNCHANGED <<storyvars, idlevars, keysvars>>

\* await sleep_ms(125) ends and the for loop starts its next sleep.
PauseSleep ==
    /\ dpc = "pause" /\ apc = 0 /\ pleft > 1
    /\ pleft' = pleft - 1
    /\ UNCHANGED <<stack, lastOp, undo, queue, dpc, running, armed, expected, apc, acall,
                   preempt, pabort>>
    /\ UNCHANGED <<storyvars, idlevars, keysvars>>

\* The last sleep ends: ux_clear_keys() drains the queue, and raises at a sentinel.
PauseEnd ==
    /\ dpc = "pause" /\ apc = 0 /\ pleft = 1
    /\ PauseClear
    /\ UNCHANGED <<stack, lastOp, undo, running, armed, expected, apc, acall, preempt, pabort>>
    /\ UNCHANGED <<storyvars, idlevars, keysvars>>

DriverNext ==
    \/ Boot
    \/ StartCycle
    \/ ScreenOp
    \/ ScreenWait
    \/ KeyGet
    \/ Absorb
    \/ InteractReturn
    \/ ScreenReturn
    \/ ScreenPause
    \/ PauseSleep
    \/ PauseEnd

\* The keypad reports a key event.
KeyPress ==
    /\ apc = 0
    /\ Len(queue) < MaxQueue
    /\ \E ch \in KeyEvents : queue' = Append(queue, ch)
    /\ UNCHANGED <<stack, lastOp, undo, dpc, running, armed, expected, apc, acall, preempt, pleft, pabort>>
    /\ UNCHANGED <<storyvars, idlevars, keysvars>>

\* abort_and_goto(m) or abort_and_push(m) is entered, while the driver task is
\* suspended in a key wait, in a sleep of ux_dramatic_pause or elsewhere inside
\* the running screen's code. pabort holds the screen the latest abort called
\* during a pause asked for, until that screen has run. preempt follows
\* the case of an abort_and_goto that finds the key wait blocked (nothing queued):
\* it holds the screen the latest abort since then asked for, until that screen
\* has run.
AbortCall ==
    /\ apc = 0 /\ dpc \in {"wait", "active", "pause"}
    /\ Len(queue) < MaxQueue
    /\ \E fn \in {"goto", "push"}, m \in Screens :
        /\ fn = "push" => Len(stack) < MaxDepth
        /\ acall' = [fn |-> fn, m |-> m, pre |-> stack, preq |-> queue]
        /\ preempt' = IF dpc = "wait" /\ ((fn = "goto" /\ queue = <<>>) \/ preempt # NoScreen)
                      THEN m ELSE NoScreen
        /\ pabort' = IF dpc = "pause" THEN m ELSE NoScreen
    /\ apc' = 1
    /\ UNCHANGED <<stack, lastOp, undo, queue, dpc, running, armed, expected, pleft>>
    /\ UNCHANGED <<storyvars, idlevars, keysvars>>

\* The next statement of the abort function in progress.
AbortStep ==
    /\ apc \in 1..Len(AbortBody(acall.fn))
    /\ LET stmt == AbortBody(acall.fn)[apc] IN
        IF stmt = "abort_ux"
        THEN queue' = abort_ux(queue) /\ UNCHANGED <<stack, lastOp, undo>>
        ELSE Apply(stmt, acall.m) /\ UNCHANGED queue
    /\ apc' = apc + 1
    /\ UNCHANGED <<dpc, running, armed, expected, acall, preempt, pleft, pabort>>
    /\ UNCHANGED <<storyvars, idlevars, keysvars>>

\* The abort function returns to its caller.
AbortReturn ==
    /\ acall.fn # "none"
    /\ apc = Len(AbortBody(acall.fn)) + 1
    /\ apc' = 0
    /\ acall' = NoCall
    /\ UNCHANGED <<stack, lastOp, undo, queue, dpc, running, armed, expected, preempt, pleft, pabort>>
    /\ UNCHANGED <<storyvars, idlevars, keysvars>>

\* ------------------------------------------------------------ ux_show_story

\* Characters per line and lines per page (FontSmall, lines 24-25).
CH_PER_W == 17
STORY_H == 5

\* Source lines a message body may have.
MaxMsgLines == 3

KEY_SELECT == "KEY_SELECT"
KEY_CANCEL == "KEY_CANCEL"
KEY_END == "KEY_END"
KEY_HOME == "KEY_HOME"
KEY_PAGE_UP == "KEY_PAGE_UP"
KEY_PAGE_DOWN == "KEY_PAGE_DOWN"
KEY_UP == "KEY_UP"
KEY_DOWN == "KEY_DOWN"
KEY_NFC == "KEY_NFC"
KEY_QR == "KEY_QR"

\* The keys pr.wait() may return: those the viewer names, and "1" for any other.
StoryKeys ==
    {KEY_SELECT, KEY_CANCEL, "x", "y", KEY_END, "0", KEY_HOME, "7", KEY_PAGE_UP,
     "9", KEY_PAGE_DOWN, "5", KEY_UP, "8", KEY_DOWN, KEY_NFC, KEY_QR, "1"}

\* The viewer keeps waiting (no return statement was reached).
NoReturn == "None"

\* A body is the sequence of its source lines, each given by its length: blank,
\* short, and long enough to be wrapped into three lines.
LineLens == {0, 1, 2 * CH_PER_W + 1}

RECURSIVE SeqsUpTo(_, _)
SeqsUpTo(S, n) ==
    IF n = 0 THEN {<<>>}
    ELSE LET shorter == SeqsUpTo(S, n - 1) IN
         shorter \cup {Append(q, e) : q \in {r \in shorter : Len(r) = n - 1}, e \in S}

\* The escape arguments: none, and two sets of keys.
Escapes == {{}, {KEY_SELECT, "6"}, {KEY_DOWN}}

\* The arguments of a call. msg.split('\n') has at least one element; a stream
\* may have no line at all.
StoryInputs ==
    {[title |-> t, msg |-> m, stream |-> st, escape |-> e, strict |-> se] :
        t \in {"None", "title"}, m \in SeqsUpTo(LineLens, MaxMsgLines),
        st \in BOOLEAN, e \in Escapes, se \in BOOLEAN} \
    {i \in [title : {"None", "title"}, msg : {<<>>}, stream : {FALSE},
            escape : Escapes, strict : BOOLEAN] : TRUE}

Max(a, b) == IF a >= b THEN a ELSE b

Min(a, b) == IF a <= b THEN a ELSE b

\* word_wrap(ln, w): the pieces of a line of n characters, none longer than w
\* and none empty.
RECURSIVE word_wrap(_, _)
word_wrap(n, w) == IF n <= 0 THEN <<>> ELSE <<"text">> \o word_wrap(n - w, w)

\* What one source line adds to the line buffer.
wrapped(n) ==
    IF n > CH_PER_W THEN word_wrap(n, CH_PER_W)
    ELSE IF n = 0 THEN <<"">> ELSE <<"text">>

RECURSIVE body_lines(_)
body_lines(msg) == IF msg = <<>> THEN <<>> ELSE wrapped(Head(msg)) \o body_lines(Tail(msg))

\* lines before trimming: the title line, if any, then the body's.
untrimmed(in) ==
    (IF in.title # "None" THEN <<"\\x01title">> ELSE <<>>) \o body_lines(in.msg)

\* while not lines[-1]: lines = lines[:-1]  -- lines[-1] of an empty list raises
\* IndexError.
RECURSIVE trim(_)
trim(ls) ==
    IF ls = <<>> THEN [raised |-> "IndexError", lines |-> ls]
    ELSE IF ls[Len(ls)] = "" THEN trim(SubSeq(ls, 1, Len(ls) - 1))
    ELSE [raised |-> "None", lines |-> ls]

\* The line buffer of a call, or the exception building it raises.
build(in) ==
    LET t == trim(untrimmed(in)) IN
    IF t.raised # "None" THEN t ELSE [raised |-> "None", lines |-> Append(t.lines, "EOT")]

\* lines[top:top+STORY_H], as the set of indexes (from 0) shown.
Window(n, t) == {i \in 0..(n - 1) : t <= i /\ i < t + STORY_H}

story_key_mutant_noclamp(ch, t, n, escape, strict) ==
    IF escape # {} /\ ch \in escape THEN [ret |-> ch, top |-> t]
    ELSE IF ch = KEY_SELECT THEN [ret |-> IF ~strict THEN "y" ELSE NoReturn, top |-> t]
    ELSE IF ch = KEY_CANCEL THEN [ret |-> IF ~strict THEN "x" ELSE NoReturn, top |-> t]
    ELSE IF ch \in {"x", "y"} THEN [ret |-> IF ~strict THEN ch ELSE NoReturn, top |-> t]
    ELSE IF ch = KEY_END THEN [ret |-> NoReturn, top |-> Max(0, n - (STORY_H \div 2))]
    ELSE IF ch = "0" \/ ch = KEY_HOME THEN [ret |-> NoReturn, top |-> 0]
    ELSE IF ch = "7" \/ ch = KEY_PAGE_UP THEN [ret |-> NoReturn, top |-> Max(0, t - STORY_H)]
    ELSE IF ch = "9" \/ ch = KEY_PAGE_DOWN THEN [ret |-> NoReturn, top |-> Min(n - 1, t + STORY_H)]
    ELSE IF ch = "5" \/ ch = KEY_UP THEN [ret |-> NoReturn, top |-> Max(0, t - 1)]
    ELSE IF ch = "8" \/ ch = KEY_DOWN THEN [ret |-> NoReturn, top |-> Min(n - 2, t + 1)]
    ELSE IF ~strict /\ ch \in {KEY_NFC, KEY_QR} THEN [ret |-> ch, top |-> t]
    ELSE [ret |-> NoReturn, top |-> t]

story_key_mutant_nostrict(ch, t, n, escape, strict) ==
    IF escape # {} /\ ch \in escape THEN [ret |-> ch, top |-> t]
    ELSE IF ch = KEY_SELECT THEN [ret |-> "y", top |-> t]
    ELSE IF ch = KEY_CANCEL THEN [ret |-> "x", top |-> t]
    ELSE IF ch \in {"x", "y"} THEN [ret |-> ch, top |-> t]
    ELSE IF ch = KEY_END THEN [ret |-> NoReturn, top |-> Max(0, n - (STORY_H \div 2))]
    ELSE IF ch = "0" \/ ch = KEY_HOME THEN [ret |-> NoReturn, top |-> 0]
    ELSE IF ch = "7" \/ ch = KEY_PAGE_UP THEN [ret |-> NoReturn, top |-> Max(0, t - STORY_H)]
    ELSE IF ch = "9" \/ ch = KEY_PAGE_DOWN THEN [ret |-> NoReturn, top |-> Min(n - 2, t + STORY_H)]
    ELSE IF ch = "5" \/ ch = KEY_UP THEN [ret |-> NoReturn, top |-> Max(0, t - 1)]
    ELSE IF ch = "8" \/ ch = KEY_DOWN THEN [ret |-> NoReturn, top |-> Min(n - 2, t + 1)]
    ELSE IF ~strict /\ ch \in {KEY_NFC, KEY_QR} THEN [ret |-> ch, top |-> t]
    ELSE [ret |-> NoReturn, top |-> t]

story_key_mutant_selectfirst(ch, t, n, escape, strict) ==
    IF ch = KEY_SELECT THEN [ret |-> IF ~strict THEN "y" ELSE NoReturn, top |-> t]
    ELSE IF ch = KEY_CANCEL THEN [ret |-> IF ~strict THEN "x" ELSE NoReturn, top |-> t]
    ELSE IF escape # {} /\ ch \in escape THEN [ret |-> ch, top |-> t]
    ELSE IF ch \in {"x", "y"} THEN [ret |-> IF ~strict THEN ch ELSE NoReturn, top |-> t]
    ELSE IF ch = KEY_END THEN [ret |-> NoReturn, top |-> Max(0, n - (STORY_H \div 2))]
    ELSE IF ch = "0" \/ ch = KEY_HOME THEN [ret |-> NoReturn, top |-> 0]
    ELSE IF ch = "7" \/ ch = KEY_PAGE_UP THEN [ret |-> NoReturn, top |-> Max(0, t - STORY_H)]
    ELSE IF ch = "9" \/ ch = KEY_PAGE_DOWN THEN [ret |-> NoReturn, top |-> Min(n - 2, t + STORY_H)]
    ELSE IF ch = "5" \/ ch = KEY_UP THEN [ret |-> NoReturn, top |-> Max(0, t - 1)]
    ELSE IF ch = "8" \/ ch = KEY_DOWN THEN [ret |-> NoReturn, top |-> Min(n - 2, t + 1)]
    ELSE IF ~strict /\ ch \in {KEY_NFC, KEY_QR} THEN [ret |-> ch, top |-> t]
    ELSE [ret |-> NoReturn, top |-> t]

\* The if/elif chain on the key ch, with top = t and len(lines) = n: the value
\* returned (or NoReturn) and the new top.
story_key(ch, t, n, escape, strict) ==
    IF escape # {} /\ ch \in escape THEN [ret |-> ch, top |-> t]
    ELSE IF ch = KEY_SELECT THEN [ret |-> IF ~strict THEN "y" ELSE NoReturn, top |-> t]
    ELSE IF ch = KEY_CANCEL THEN [ret |-> IF ~strict THEN "x" ELSE NoReturn, top |-> t]
    ELSE IF ch \in {"x", "y"} THEN [ret |-> IF ~strict THEN ch ELSE NoReturn, top |-> t]
    ELSE IF ch = KEY_END THEN [ret |-> NoReturn, top |-> Max(0, n - (STORY_H \div 2))]
    ELSE IF ch = "0" \/ ch = KEY_HOME THEN [ret |-> NoReturn, top |-> 0]
    ELSE IF ch = "7" \/ ch = KEY_PAGE_UP THEN [ret |-> NoReturn, top |-> Max(0, t - STORY_H)]
    ELSE IF ch = "9" \/ ch = KEY_PAGE_DOWN THEN [ret |-> NoReturn, top |-> Min(n - 2, t + STORY_H)]
    ELSE IF ch = "5" \/ ch = KEY_UP THEN [ret |-> NoReturn, top |-> Max(0, t - 1)]
    ELSE IF ch = "8" \/ ch = KEY_DOWN THEN [ret |-> NoReturn, top |-> Min(n - 2, t + 1)]
    ELSE IF ~strict /\ ch \in {KEY_NFC, KEY_QR} THEN [ret |-> ch, top |-> t]
    ELSE [ret |-> NoReturn, top |-> t]

IsPageDown(ch) == ch = "9" \/ ch = KEY_PAGE_DOWN

\* Page-down presses after which top has reached len(lines) - 2, from top = 0.
PagesNeeded(n) == (Max(n - 2, 0) + STORY_H - 1) \div STORY_H

StoryOff ==
    /\ s_in = [title |-> "None", msg |-> <<>>, stream |-> FALSE, escape |-> {}, strict |-> FALSE]
    /\ lines = <<>>
    /\ top = 0
    /\ spc = "off"
    /\ sres = NoReturn
    /\ pdRun = -1
    /\ skey = "None"

\* ux_show_story(msg, title, escape, strict_escape=...) is called.
StoryInit ==
    /\ s_in \in StoryInputs
    /\ lines = <<>>
    /\ top = 0
    /\ spc = "call"
    /\ sres = NoReturn
    /\ pdRun = -1
    /\ skey = "None"

\* Lines 128-174: the line buffer is built, top = 0, the first page is drawn and
\* the viewer waits for a key; or building it raises.
StoryBuild ==
    /\ spc = "call"
    /\ LET b == build(s_in) IN
        /\ lines' = b.lines
        /\ spc' = IF b.raised = "None" THEN "wait" ELSE "fault"
        /\ pdRun' = IF b.raised = "None" THEN 0 ELSE -1
    /\ top' = 0
    /\ UNCHANGED <<s_in, sres, skey>>
    /\ UNCHANGED <<uxvars, idlevars, keysvars>>

\* Lines 177-204, then 174: pr.wait() returns ch, the chain handles it, and the
\* viewer returns or redraws and waits again.
StoryKey ==
    /\ spc = "wait"
    /\ \E ch \in StoryKeys :
        LET r == story_key(ch, top, Len(lines), s_in.escape, s_in.strict) IN
        /\ top' = r.top
        /\ sres' = r.ret
        /\ skey' = ch
        /\ spc' = IF r.ret = NoReturn THEN "wait" ELSE "done"
        /\ pdRun' = IF pdRun >= 0 /\ IsPageDown(ch) /\ r.ret = NoReturn
                    THEN Min(pdRun + 1, PagesNeeded(Len(lines)) + 1)
                    ELSE -1
    /\ UNCHANGED <<s_in, lines>>
    /\ UNCHANGED <<uxvars, idlevars, keysvars>>

StoryNext == StoryBuild \/ StoryKey

\* -------------------------------------------------------------- idle_logout

\* utime.ticks_ms() wraps around at TicksPeriod = 2 * TicksHalf; one unit is the
\* watchdog's sleep of 5000 ms.
TicksHalf == 4

TicksPeriod == 2 * TicksHalf

\* The largest 'idle_to' setting, in the same units.
MaxTimeout == 2

\* utime.ticks_diff(a, b): the wraparound-safe a - b, in -TicksHalf..TicksHalf-1.
ticks_diff(a, b) == ((a - b + TicksHalf) % TicksPeriod) - TicksHalf

idle_check_mutant_ge(last, nowv, timeout) ==
    IF last = 0 THEN "continue"
    ELSE IF timeout # 0 /\ ticks_diff(nowv, last) >= timeout THEN "logout"
    ELSE "continue"

idle_check_mutant_norecord(last, nowv, timeout) ==
    IF timeout # 0 /\ ticks_diff(nowv, last) > timeout THEN "logout"
    ELSE "continue"

\* Lines 215-229: what the cycle that wakes up at nowv decides.
idle_check(last, nowv, timeout) ==
    IF last = 0 THEN "continue"
    ELSE IF timeout # 0 /\ ticks_diff(nowv, last) > timeout THEN "logout"
    ELSE "continue"

\* while not glob.hsm_active: the loop is entered again, or the function ends.
loop_test(hsm) == IF hsm THEN "done" ELSE "sleep"

\* The watchdog task is started, at any uptime, with no key event recorded yet.
IdleInit ==
    /\ hsm_active \in BOOLEAN
    /\ last_event_time = 0
    /\ now \in 0..(TicksPeriod - 1)
    /\ idle_to \in 0..MaxTimeout
    /\ wpc = "start"
    /\ logouts = 0
    /\ quiet = FALSE

\* The first test of the while condition.
WatchStart ==
    /\ wpc = "start"
    /\ wpc' = loop_test(hsm_active)
    /\ UNCHANGED <<hsm_active, last_event_time, now, idle_to, logouts, quiet>>
    /\ UNCHANGED <<uxvars, storyvars, keysvars>>

\* await sleep_ms(5000) ends; the checks of lines 215-224 run, and then either
\* logout_now() is called or the while condition is tested again.
WatchCycle ==
    /\ wpc = "sleep"
    /\ now' = (now + 1) % TicksPeriod
    /\ IF idle_check(last_event_time, now', idle_to) = "logout"
       THEN wpc' = "logout_now" /\ logouts' = logouts + 1
       ELSE wpc' = loop_test(hsm_active) /\ logouts' = logouts
    /\ UNCHANGED <<hsm_active, last_event_time, idle_to, quiet>>
    /\ UNCHANGED <<uxvars, storyvars, keysvars>>

\* logout_now() returns (if it ever does): the return statement ends the task.
LogoutReturn ==
    /\ wpc = "logout_now"
    /\ wpc' = "done"
    /\ UNCHANGED <<hsm_active, last_event_time, now, idle_to, logouts, quiet>>
    /\ UNCHANGED <<uxvars, storyvars, keysvars>>

WatchNext == WatchStart \/ WatchCycle \/ LogoutReturn

\* The numpad delivers a key event and stamps it.
IdleKey ==
    /\ ~quiet
    /\ last_event_time' = now
    /\ UNCHANGED <<hsm_active, now, idle_to, wpc, logouts, quiet>>
    /\ UNCHANGED <<uxvars, storyvars, keysvars>>

\* The privileged mode starts or ends.
SetHsm ==
    /\ ~quiet
    /\ hsm_active' = ~hsm_active
    /\ UNCHANGED <<last_event_time, now, idle_to, wpc, logouts, quiet>>
    /\ UNCHANGED <<uxvars, storyvars, keysvars>>

\* The idle timeout setting is changed.
ChangeSetting ==
    /\ ~quiet
    /\ \E t \in 0..MaxTimeout : t # idle_to /\ idle_to' = t
    /\ UNCHANGED <<hsm_active, last_event_time, now, wpc, logouts, quiet>>
    /\ UNCHANGED <<uxvars, storyvars, keysvars>>

\* From now on the user leaves the device alone.
GoQuiet ==
    /\ ~quiet
    /\ quiet' = TRUE
    /\ UNCHANGED <<hsm_active, last_event_time, now, idle_to, wpc, logouts>>
    /\ UNCHANGED <<uxvars, storyvars, keysvars>>

IdleNext == WatchNext \/ IdleKey \/ SetHsm \/ ChangeSetting \/ GoQuiet

\* ------------------------------------------- ux_clear_keys and ux_poll_key

\* Events that may be pending when one of the two is called.
MaxPending == 3

NoKeyCall == [fn |-> "none", no_aborts |-> FALSE, pre |-> <<>>, ret |-> "None", raised |-> "None"]

KeysOff == kq = <<>> /\ klast = NoKeyCall

\* Any key events and abort sentinels are pending, in any order.
KeysInit ==
    /\ kq \in SeqsUpTo(KeyEvents \cup {ABORT_KEY}, MaxPending)
    /\ klast = NoKeyCall

\* ux_clear_keys(no_aborts) is called.
ClearKeys ==
    /\ \E na \in BOOLEAN :
        LET r == ux_clear_keys(kq, na) IN
        /\ kq' = r.queue
        /\ klast' = [fn |-> "ux_clear_keys", no_aborts |-> na, pre |-> kq, ret |-> "None",
                     raised |-> r.raised]
    /\ UNCHANGED <<uxvars, storyvars, idlevars>>

\* ux_poll_key() is called.
PollKey ==
    /\ LET r == ux_poll_key(kq) IN
        /\ kq' = r.queue
        /\ klast' = [fn |-> "ux_poll_key", no_aborts |-> FALSE, pre |-> kq, ret |-> r.ret,
                     raised |-> r.raised]
    /\ UNCHANGED <<uxvars, storyvars, idlevars>>

KeysNext == ClearKeys \/ PollKey

\* ----------------------------------------------------------- specifications

IdleOff ==
    /\ hsm_active = FALSE
    /\ last_event_time = 0
    /\ now = 0
    /\ idle_to = 0
    /\ wpc = "off"
    /\ logouts = 0
    /\ quiet = FALSE

Init == UxInit /\ StoryOff /\ IdleOff /\ KeysOff

Next == DriverNext \/ KeyPress \/ AbortCall \/ AbortStep \/ AbortReturn

Spec == Init /\ [][Next]_vars

\* The scheduler runs every runnable task, and a function runs to its return.
FairSpec == Spec /\ WF_vars(DriverNext) /\ WF_vars(AbortStep \/ AbortReturn)

StoryStart == UxInit /\ StoryInit /\ IdleOff /\ KeysOff

StorySpec == StoryStart /\ [][StoryNext]_vars

IdleStart == UxInit /\ StoryOff /\ IdleInit /\ KeysOff

IdleSpec == IdleStart /\ [][IdleNext]_vars

\* The timer ends every sleep, and the scheduler then runs the watchdog task.
IdleFairSpec == IdleSpec /\ WF_vars(WatchNext)

KeysStart == UxInit /\ StoryOff /\ IdleOff /\ KeysInit

KeysSpec == KeysStart /\ [][KeysNext]_vars

\* ------------------------------------------------------------------ claims

\* C1: once reset() has initialized the stack (the driver has left "boot"), every
\* state reached by push, replace, pop, reset, abort_and_goto and abort_and_push
\* has at least one screen on the stack.
C1_NeverEmpty == dpc # "boot" => Len(stack) >= 1

\* A pop() was called on the root screen alone, and the screen is still there.
C1_Witness ==
    /\ dpc # "boot" /\ lastOp.op = "pop" /\ Len(lastOp.pre) = 1 /\ Len(stack) = 1
    /\ lastOp.ret = "True"

\* The abort function in progress has queued its sentinel.
Signalled == apc >= 1 /\ Len(Aborts(queue)) > Len(Aborts(acall.preq))

\* The stack abort_and_goto(m) / abort_and_push(m) is to leave.
AbortTarget == IF acall.fn = "goto" THEN <<acall.m>> ELSE Append(acall.pre, acall.m)

\* C3: whenever the sentinel of an abort_and_goto(m) or abort_and_push(m) call is
\* queued, the stack is already [m], respectively the stack at entry followed by
\* m, and after abort_and_push a pop() gives the stack at entry back, the
\* interrupted screen on top.
C3_MutateBeforeSignal ==
    Signalled =>
        /\ stack = AbortTarget
        /\ (acall.fn = "push" /\ acall.pre # <<>>) =>
            /\ pop(stack).stack = acall.pre
            /\ top_of_stack(pop(stack).stack) = top_of_stack(acall.pre)

\* abort_and_push(m) on an initialized stack has executed both its statements.
C3_Witness ==
    /\ Signalled /\ acall.fn = "push" /\ acall.pre # <<>>
    /\ apc = Len(abort_and_push_body) + 1
    /\ queue[Len(queue)] = ABORT_KEY

\* C6: reset(x) leaves the stack [x]; pop() on a stack of one screen leaves it
\* unchanged and returns True; pop() on two or more screens removes exactly the
\* top one and does not return True.
C6_ResetAndPop ==
    /\ lastOp.op = "reset" => stack = <<lastOp.arg>>
    /\ (lastOp.op = "pop" /\ Len(lastOp.pre) = 1) =>
        stack = lastOp.pre /\ lastOp.ret = "True"
    /\ (lastOp.op = "pop" /\ Len(lastOp.pre) >= 2) =>
        /\ stack = SubSeq(lastOp.pre, 1, Len(lastOp.pre) - 1)
        /\ lastOp.ret # "True"

\* pop() was called on a stack holding only screen B.
C6_Witness == lastOp.op = "pop" /\ lastOp.pre = <<"B">> /\ stack = <<"B">>

\* C7: a pop() that follows a push (with only nested push/pop pairs in between)
\* on an initialized stack gives the stack found by that push back, the same
\* screen on top; and wherever such a push is pending, pop() would do so.
C7_PushPop ==
    /\ lastOp.undone # <<>> =>
        stack = lastOp.undone /\ top_of_stack(stack) = top_of_stack(lastOp.undone)
    /\ undo # <<>> =>
        /\ pop(stack).stack = undo[Len(undo)]
        /\ top_of_stack(pop(stack).stack) = top_of_stack(undo[Len(undo)])

\* An inner push/pop pair was just closed inside an outer push still pending.
C7_Witness == lastOp.op = "pop" /\ lastOp.undone # <<>> /\ undo # <<>> /\ Len(stack) >= 2

\* C8: an AbortInteraction (raised in a key wait or by ux_clear_keys) leaving the
\* top screen is absorbed by the_ux.interact(),
\* which then returns to the driver loop, neither step changing the stack; it
\* goes nowhere else; and the cycle the loop starts next runs the screen on top
\* of the stack at that moment.
C8_AbsorbAborted ==
    [][ /\ (dpc = "unwind" /\ dpc' # "unwind") => (dpc' = "absorbed" /\ stack' = stack)
        /\ (dpc = "absorbed" /\ dpc' # "absorbed") => (dpc' = "loop" /\ stack' = stack)
        /\ dpc' = "unwind" => (dpc \in {"wait", "pause", "active", "unwind"})
        /\ (dpc = "loop" /\ dpc' # "loop") =>
            (dpc' = "active" /\ running' = top_of_stack(stack) /\ stack' = stack)
      ]_vars

\* The exception was absorbed while the top of stack is no longer the screen that ran.
C8_Witness == dpc = "absorbed" /\ top_of_stack(stack) # running /\ running # NoScreen

\* C2 (state part): after abort_and_goto(S) found the key wait blocked, the wait
\* has the sentinel first in its queue, S (or a later abort's screen) is on top,
\* the driver is on its way back to the loop, nothing crashed, and the cycle
\* started next runs that screen.
PreemptInv ==
    (preempt # NoScreen /\ apc = 0) =>
        /\ dpc \in {"wait", "unwind", "absorbed", "loop", "active"}
        /\ (dpc = "wait" => (queue # <<>> /\ Head(queue) = ABORT_KEY))
        /\ (dpc = "active" => running = preempt)
        /\ (dpc # "active" => top_of_stack(stack) = preempt)

\* C2: PreemptInv always holds and, the scheduler being fair, a preempted key
\* wait always leads to a cycle of the driver loop that runs the screen asked for.
C2_AbortWakesWait ==
    /\ []PreemptInv
    /\ (preempt # NoScreen) ~> (dpc = "active" /\ preempt # NoScreen /\ running = preempt)

\* The driver loop runs screen B after an abort_and_goto(B) that interrupted A.
C2_Witness == dpc = "active" /\ preempt = "B" /\ running = "B" /\ stack = <<"B">>

\* A key was handled and the viewer redrew: a scroll key or an ignored key.
ScrollStep == spc = "wait" /\ spc' = "wait"

\* C5 as stated: from a top within [0, total_lines - viewport_height] every key
\* the viewer handles without returning leaves top within that range.
C5_Original ==
    [][ (ScrollStep /\ top \in 0..(Len(lines) - STORY_H))
            => top' \in 0..(Len(lines) - STORY_H) ]_vars

\* C5 as amended: from a top within [0, total_lines - 2] every key the viewer
\* handles without returning leaves top within [0, total_lines - 2].
C5_TopInRange ==
    [][ (ScrollStep /\ top \in 0..(Len(lines) - 2)) => top' \in 0..(Len(lines) - 2) ]_vars

\* The view has scrolled past total_lines - viewport_height, to the last position.
C5_Witness ==
    /\ spc = "wait" /\ Len(lines) > STORY_H
    /\ top = Len(lines) - 2 /\ top > Len(lines) - STORY_H

\* The window lines[top:top+STORY_H] contains the sentinel, the last line.
SentinelVisible == (Len(lines) - 1) \in Window(Len(lines), top)

\* A Page-down was handled, after nothing but Page-downs since the first draw.
PageDownStep == ScrollStep /\ pdRun >= 0 /\ pdRun' >= 0

\* C9 as stated: on a buffer longer than one page, Page-downs from top = 0 bring
\* the sentinel into view within PagesNeeded presses, and from any view that
\* shows the sentinel a further Page-down leaves top unchanged.
C9_Original ==
    /\ [](( /\ spc = "wait" /\ Len(lines) > STORY_H
            /\ pdRun >= PagesNeeded(Len(lines)) ) => SentinelVisible)
    /\ [][ (PageDownStep /\ Len(lines) > STORY_H /\ SentinelVisible) => top' = top ]_vars

\* C9 as amended: on a buffer longer than one page, Page-downs from top = 0 reach
\* top = total_lines - 2 within PagesNeeded presses, a view that shows the
\* sentinel; a view that shows the sentinel still shows it after a Page-down;
\* and at top = total_lines - 2 a further Page-down leaves top unchanged.
C9_PageDownReachesEnd ==
    /\ [](( /\ spc = "wait" /\ Len(lines) > STORY_H
            /\ pdRun >= PagesNeeded(Len(lines)) )
            => (top = Len(lines) - 2 /\ SentinelVisible))
    /\ [][ (PageDownStep /\ Len(lines) > STORY_H /\ SentinelVisible) => SentinelVisible' ]_vars
    /\ [][ (PageDownStep /\ Len(lines) > STORY_H /\ top = Len(lines) - 2) => top' = top ]_vars

\* One Page-down more than needed was pressed on a buffer of more than one page.
C9_Witness ==
    /\ spc = "wait" /\ Len(lines) > STORY_H + 2
    /\ pdRun = PagesNeeded(Len(lines)) + 1
    /\ top = Len(lines) - 2

\* Every line of the body is blank.
AllBlank(msg) == \A i \in 1..Len(msg) : msg[i] = 0

\* C10: a call with no title and an entirely blank body gets a line buffer that
\* ends with the sentinel, and reaches the render loop without raising.
C10_BlankBody ==
    (spc # "call" /\ spc # "off" /\ s_in.title = "None" /\ AllBlank(s_in.msg)) =>
        /\ spc # "fault"
        /\ lines # <<>> /\ lines[Len(lines)] = "EOT"

\* C4: once the user leaves the device alone with a non-zero timeout, a recorded
\* key event, the privileged mode off and the watchdog running, logout_now() is
\* called; it is called only in a cycle whose elapsed time exceeds the timeout,
\* never a second time, and the task, once ended, stays ended.
C4_IdleLogoutOnce ==
    /\ (quiet /\ idle_to # 0 /\ last_event_time # 0 /\ ~hsm_active /\ wpc \in {"start", "sleep"})
            ~> (logouts = 1 /\ wpc \in {"logout_now", "done"})
    /\ [](logouts <= 1 /\ (logouts = 1 => wpc \in {"logout_now", "done"}))
    /\ [][logouts' # logouts =>
            (idle_to # 0 /\ ticks_diff(now', last_event_time) > idle_to)]_vars
    /\ [][wpc = "done" => wpc' = "done"]_vars

\* The idle user was logged out and the watchdog task has ended.
C4_Witness == quiet /\ logouts = 1 /\ wpc = "done" /\ ~hsm_active /\ idle_to # 0

\* The keys of the chain's scroll branches (lines 190-201).
ScrollKeys == {KEY_END, "0", KEY_HOME, "7", KEY_PAGE_UP, "9", KEY_PAGE_DOWN, "5", KEY_UP, "8", KEY_DOWN}

\* The canonical marker of a confirm or cancel key.
Marker(ch) == IF ch = KEY_SELECT THEN "y" ELSE IF ch = KEY_CANCEL THEN "x" ELSE ch

\* The viewer handles a key in this step: skey' is that key.
KeyStep == spc = "wait" /\ spc' \in {"wait", "done"}

\* C11: a select key, cancel key, 'x' or 'y' that is not in the escape set makes
\* the viewer return its marker ('y', 'x', 'x', 'y') when strict_escape is false;
\* when strict_escape is true the key is ignored: nothing is returned, top is
\* unchanged and the viewer waits again.
C11_SelectCancel ==
    [][ (KeyStep /\ skey' \in {KEY_SELECT, KEY_CANCEL, "x", "y"} /\ skey' \notin s_in.escape) =>
            IF ~s_in.strict
            THEN spc' = "done" /\ sres' = Marker(skey')
            ELSE spc' = "wait" /\ sres' = NoReturn /\ top' = top /\ lines' = lines
      ]_vars

\* Under strict_escape the select key was pressed on a scrolled view and ignored.
C11_Witness ==
    /\ spc = "wait" /\ skey = KEY_SELECT /\ s_in.strict /\ KEY_SELECT \notin s_in.escape
    /\ top > 0

\* C16 as stated: a key of the escape set is returned verbatim, whatever
\* strict_escape is and also when it is the select key; every value returned is
\* an escape key, 'y', 'x' or NFC/QR; under strict_escape only escape keys are
\* returned; and a scroll key never makes the viewer return.
C16_Original ==
    /\ [][ (KeyStep /\ skey' \in s_in.escape) => (spc' = "done" /\ sres' = skey') ]_vars
    /\ [](spc = "done" =>
            /\ sres \in s_in.escape \cup {"y", "x", KEY_NFC, KEY_QR}
            /\ s_in.strict => sres \in s_in.escape)
    /\ [][ (KeyStep /\ skey' \in ScrollKeys) => spc' = "wait" ]_vars

\* C16 as amended: the same, but only a scroll key that is not in the escape set
\* never makes the viewer return.
C16_EscapeFirst ==
    /\ [][ (KeyStep /\ skey' \in s_in.escape) => (spc' = "done" /\ sres' = skey') ]_vars
    /\ [](spc = "done" =>
            /\ sres \in s_in.escape \cup {"y", "x", KEY_NFC, KEY_QR}
            /\ s_in.strict => sres \in s_in.escape)
    /\ [][ (KeyStep /\ skey' \in ScrollKeys /\ skey' \notin s_in.escape)
            => (spc' = "wait" /\ sres' = NoReturn) ]_vars

\* Under strict_escape the select key, a key of the escape set, was returned as it is.
C16_Witness ==
    /\ spc = "done" /\ s_in.strict /\ skey = KEY_SELECT /\ sres = KEY_SELECT
    /\ KEY_SELECT \in s_in.escape

\* C18: while the viewer is in its render loop the buffer has at least two lines,
\* 'EOT' last and a non-blank line before it, top is within [0, total_lines - 2],
\* and the window drawn is not empty.
C18_RenderInv ==
    spc = "wait" =>
        /\ Len(lines) >= 2
        /\ lines[Len(lines)] = "EOT"
        /\ lines[Len(lines) - 1] # ""
        /\ 0 <= top /\ top <= Len(lines) - 2
        /\ Window(Len(lines), top) # {}

\* On the shortest buffer (one line and the sentinel) a scroll key was handled.
C18_Witness == spc = "wait" /\ Len(lines) = 2 /\ skey \in {KEY_END, KEY_PAGE_DOWN, KEY_DOWN, KEY_PAGE_UP}

\* C12: a cycle that finds the privileged mode active skips the logout and the
\* watchdog keeps running, so that a later cycle can still log out: the watchdog
\* task ends only by the return after logout_now().
C12_SkipKeepsRunning == wpc = "done" => logouts = 1

\* C15: logout_now() is called only in a cycle that finds a recorded key event,
\* a non-zero timeout setting and, with the values of last_event_time and of the
\* setting as they are at that check, an elapsed time strictly greater than the
\* timeout; with the setting at zero no cycle calls it.
C15_LogoutOnlyWhenIdle ==
    [][ /\ logouts' # logouts =>
            /\ wpc = "sleep" /\ wpc' = "logout_now"
            /\ last_event_time # 0
            /\ idle_to # 0
            /\ ticks_diff(now', last_event_time) > idle_to
        /\ (wpc = "sleep" /\ wpc' # wpc /\ idle_to = 0) => logouts' = logouts
        /\ (wpc = "sleep" /\ now' # now /\ last_event_time = 0) => logouts' = logouts
      ]_vars

\* logout_now() was called when the elapsed time was at least two sleeps.
C15_Witness ==
    /\ wpc = "logout_now" /\ logouts = 1 /\ last_event_time # 0 /\ idle_to = 1
    /\ ticks_diff(now, last_event_time) >= 2

\* C19: no cycle calls logout_now() while the privileged-mode flag is true.
C19_NoLogoutInHsm == [][logouts' # logouts => ~hsm_active]_vars

\* ux_wait_keyup reads the event at the head of the queue in this step.
Reads(ch) == dpc = "wait" /\ apc = 0 /\ queue # <<>> /\ Head(queue) = ch /\ queue' = Tail(queue)

\* The key codes `expected` lets through (all, if none is given).
Accepted(ch) == expected = {} \/ ch \in expected

\* C13: ux_wait_keyup returns only on a release event that follows an accepted
\* single-key down event (never on a key-down, a multi-key code or a key outside
\* the expected set), and, whatever the expected set, the release that follows
\* the press of an accepted key makes it return.
C13_ReturnOnKeyUp ==
    [][ /\ (dpc = "wait" /\ dpc' = "active") =>
            /\ Reads("")
            /\ KeyLen(armed) = 1 /\ Accepted(armed)
        /\ \A ch \in {"x", "y"} :
            (Reads("") /\ armed = ch /\ Accepted(ch)) => dpc' = "active"
      ]_vars

\* C14: replace(s) on a stack of n >= 1 screens leaves n screens, s on top and
\* the n - 1 screens below as they were.
C14_ReplaceFrame ==
    (lastOp.op = "replace" /\ Len(lastOp.pre) >= 1) =>
        /\ Len(stack) = Len(lastOp.pre)
        /\ top_of_stack(stack) = lastOp.arg
        /\ SubSeq(stack, 1, Len(stack) - 1) = SubSeq(lastOp.pre, 1, Len(lastOp.pre) - 1)

\* replace() put another screen on top of a stack of three.
C14_Witness ==
    /\ lastOp.op = "replace" /\ Len(lastOp.pre) = 3 /\ Len(stack) = 3
    /\ lastOp.arg # top_of_stack(lastOp.pre)

\* C20 (state part): after an abort called during the sleeps of a pause, the
\* sentinel is still queued while the pause lasts, the screen asked for (by the
\* latest such abort) is on top, the driver is in the pause or on its way back to
\* the loop, and the cycle started next runs that screen.
PauseAbortInv ==
    (pabort # NoScreen /\ apc = 0) =>
        /\ dpc \in {"pause", "unwind", "absorbed", "loop", "active"}
        /\ (dpc = "pause" => Aborts(queue) # <<>>)
        /\ (dpc = "active" => running = pabort)
        /\ (dpc # "active" => top_of_stack(stack) = pabort)

\* C20: PauseAbortInv always holds; the ux_clear_keys() that ends such a pause
\* raises; until the screen asked for runs, only abort functions change the
\* stack; and, the scheduler being fair, that screen does run.
C20_AbortDuringPause ==
    /\ []PauseAbortInv
    /\ [][ (pabort # NoScreen /\ dpc = "pause" /\ dpc' # "pause") => dpc' = "unwind" ]_vars
    /\ [][ (pabort # NoScreen /\ dpc # "active" /\ stack' # stack) => apc >= 1 ]_vars
    /\ (pabort # NoScreen) ~> (dpc = "active" /\ pabort # NoScreen /\ running = pabort)

\* The driver loop runs B, pushed by abort_and_push(B) during a pause of A.
C20_Witness ==
    /\ dpc = "active" /\ pabort = "B" /\ running = "B" /\ stack = <<"A", "B">>
    /\ lastOp.op = "push"

\* Index of the first abort sentinel in q (0: none).
RECURSIVE FirstAbort(_)
FirstAbort(q) ==
    IF q = <<>> THEN 0
    ELSE IF Head(q) = ABORT_KEY THEN 1
    ELSE IF FirstAbort(Tail(q)) = 0 THEN 0 ELSE 1 + FirstAbort(Tail(q))

\* C17: ux_clear_keys(no_aborts=False) raises at the first sentinel queued,
\* leaving what was queued after it, and with none queued returns with the queue
\* empty; ux_clear_keys(no_aborts=True) never raises and leaves the queue empty;
\* ux_poll_key returns None on an empty queue, raises on a sentinel and
\* otherwise returns the first event queued, taking only that one.
C17_DrainAndPoll ==
    LET pre == klast.pre
        i == FirstAbort(klast.pre)
    IN
    /\ (klast.fn = "ux_clear_keys" /\ ~klast.no_aborts /\ i > 0) =>
        /\ klast.raised = "AbortInteraction"
        /\ kq = SubSeq(pre, i + 1, Len(pre))
    /\ (klast.fn = "ux_clear_keys" /\ ~klast.no_aborts /\ i = 0) =>
        /\ klast.raised = "None" /\ kq = <<>>
    /\ (klast.fn = "ux_clear_keys" /\ klast.no_aborts) =>
        /\ klast.raised = "None" /\ kq = <<>>
    /\ (klast.fn = "ux_poll_key" /\ pre = <<>>) =>
        /\ klast.raised = "None" /\ klast.ret = "None" /\ kq = <<>>
    /\ (klast.fn = "ux_poll_key" /\ pre # <<>>) =>
        /\ kq = Tail(pre)
        /\ IF Head(pre) = ABORT_KEY
           THEN klast.raised = "AbortInteraction"
           ELSE klast.raised = "None" /\ klast.ret = Head(pre)

\* ux_clear_keys() raised at a sentinel queued between two key events.
C17_Witness ==
    /\ klast.fn = "ux_clear_keys" /\ ~klast.no_aborts /\ klast.raised = "AbortInteraction"
    /\ FirstAbort(klast.pre) = 2 /\ Len(klast.pre) = 3 /\ Len(kq) = 1

====
